---- MODULE Spec2Model ----
(***************************************************************************)
(* BatchTracker (validator/sawtooth_validator/state/batch_tracker.py).     *)
(*                                                                         *)
(* The tracker keeps a dict of pending batches, a TimedCache of invalid    *)
(* batches and a dict of observers, and asks the block store whether a     *)
(* batch is committed.  Every notify_*, get_status(es) and watch_statuses  *)
(* method runs its whole body under self._lock, so each call is one        *)
(* action.  Python dicts are kept as sequences of (key, val) entries in    *)
(* insertion order, because the notify_* methods iterate over them and the *)
(* iteration order decides which batch is found first.                     *)
(*                                                                         *)
(* Observers here only record the call they receive; they do not call back *)
(* into the tracker from inside notify_batches_finished.                   *)
(***************************************************************************)
EXTENDS Integers, Sequences, FiniteSets, TLC

----------------------------------------------------------------------------
(* Bounds of the model *)

\* the clock stops at MaxTime
MaxTime == 3600
\* seconds the clock advances in one Tick
TickStep == 1800

Observers == {"w1", "w2"}

\* the threads that call the tracker, the operations each of them starts, the
\* ids of one get_statuses call and the callbacks of one operation that call
\* back into the tracker
Threads == {"th1", "th2"}
MaxOps == 1
MaxIds == 1
MaxCallbacks == 1

\* The batches that can be submitted.  A batch id is the signature of a
\* header that lists the batch's transactions, so an id names one
\* transaction set.  t2 is in both batches.
BatchTxns == [b1 |-> {"t1", "t2"}, b2 |-> {"t2"}]
Batches == DOMAIN BatchTxns
Txns == UNION {BatchTxns[b] : b \in Batches}

\* The (txn_id, message, extended_data) arguments of a rejection
Rejections ==
    {<<"t1", "None", "None">>, <<"t1", "bad sig", "None">>,
     <<"t2", "bad sig", "xd">>, <<"t2", "None", "xd">>}

----------------------------------------------------------------------------
(* Program constants *)

INVALID_KEEP_TIME == 3600

None == "None"

PENDING == "PENDING"
COMMITTED == "COMMITTED"
INVALID == "INVALID"
UNKNOWN == "UNKNOWN"
BatchStatus == {PENDING, COMMITTED, INVALID, UNKNOWN}

\* the methods an observer implements (class BatchFinishObserver)
BatchFinishObserver == {"notify_batches_finished"}

----------------------------------------------------------------------------
(* Python dict, insertion ordered: a sequence of [key, val] entries *)

EmptyDict == << >>

DictKeys(d) == {d[i].key : i \in 1..Len(d)}

DictGet(d, k) == d[CHOOSE i \in 1..Len(d) : d[i].key = k].val

\* d[k] = v : an existing key keeps its position
DictSet(d, k, v) ==
    IF k \in DictKeys(d)
    THEN [i \in 1..Len(d) |-> IF d[i].key = k THEN [key |-> k, val |-> v] ELSE d[i]]
    ELSE Append(d, [key |-> k, val |-> v])

\* d.pop(k)
DictPop(d, k) == SelectSeq(d, LAMBDA e : e.key # k)

\* a mapping without order (a statuses dict, the cache): a function
EmptyMap == [k \in {} |-> None]

MapSet(f, k, v) == [x \in (DOMAIN f) \cup {k} |-> IF x = k THEN v ELSE f[x]]

----------------------------------------------------------------------------
VARIABLES
    block_store,   \* ids of the batches the block store holds (has_batch)
    invalid,       \* self._invalid : batch id -> [value, timestamp]
    pending,       \* self._pending : dict batch id -> set of txn ids
    observers,     \* self._observers : dict observer -> statuses
    now,           \* the clock the TimedCache reads
    op,            \* the call made last, with its arguments
    err,           \* the exception that call raised, or None
    ret,           \* the value that call returned, or None
    emits,         \* the (batch_id, status) pairs that call passed to _update_observers
    calls,         \* the observer methods that call invoked, in order
    admitted,      \* history: the batch ids passed to notify_batch_pending so far
    lock_owner,    \* self._lock : the thread that holds the RLock, or None
    lock_count,    \* self._lock : how many times its owner has acquired it
    stack,         \* per thread, the tracker methods it is in, innermost last
    started        \* per thread, how many operations it has started

vars == <<block_store, invalid, pending, observers, now, op, err, ret, emits, calls,
          admitted, lock_owner, lock_count, stack, started>>

\* the variables of the runs that follow the threads through the lock
threads == <<lock_owner, lock_count, stack, started>>

\* the variables of the runs that take each call as one step
calls_state == <<block_store, invalid, pending, observers, now, op, err, ret, emits,
                 calls, admitted>>

tracker == <<invalid, pending, observers>>

----------------------------------------------------------------------------
(* TimedCache(keep_time): set starts the expiry timer of the key, get and  *)
(* contains see a key only until keep_time after it was set.               *)

TimedCacheContains(cache, key, time) ==
    /\ key \in DOMAIN cache
    /\ time < cache[key].timestamp + INVALID_KEEP_TIME

TimedCacheSet(cache, key, value, time) ==
    MapSet(cache, key, [value |-> value, timestamp |-> time])

TimedCacheGet(cache, key) == cache[key].value

----------------------------------------------------------------------------
(* _has_no_pendings *)

\* _has_no_pendings with any() in place of all()
_has_no_pendings_any(statuses) == \E b \in DOMAIN statuses : statuses[b] # PENDING

_has_no_pendings(statuses) == \A b \in DOMAIN statuses : statuses[b] # PENDING

\* the statuses dict after statuses[batch_id] = status
StatusesSet(statuses, batch_id, status) == [statuses EXCEPT ![batch_id] = status]

----------------------------------------------------------------------------
(* get_status, get_statuses: read block store, cache and pending set *)

\* get_status with the pending set looked up first
get_status_pending_first(batch_id) ==
    IF batch_id \in DictKeys(pending) THEN PENDING
    ELSE IF batch_id \in block_store THEN COMMITTED
    ELSE IF TimedCacheContains(invalid, batch_id, now) THEN INVALID
    ELSE UNKNOWN

\* get_status without the block store lookup
get_status_no_store(batch_id) ==
    IF TimedCacheContains(invalid, batch_id, now) THEN INVALID
    ELSE IF batch_id \in DictKeys(pending) THEN PENDING
    ELSE UNKNOWN

get_status(batch_id) ==
    IF batch_id \in block_store THEN COMMITTED
    ELSE IF TimedCacheContains(invalid, batch_id, now) THEN INVALID
    ELSE IF batch_id \in DictKeys(pending) THEN PENDING
    ELSE UNKNOWN

get_statuses(batch_ids) == [b \in batch_ids |-> get_status(b)]

----------------------------------------------------------------------------
(* _update_observers(batch_id, status).  The loop walks the copy of the    *)
(* observers dict taken on entry; acc holds the observers dict and the     *)
(* calls made so far.  The statuses dict of an entry is the same object in *)
(* the copy and in the dict.                                               *)

\* UpdateObserversStep without the test batch_id in statuses
UpdateObserversStepNoTest(acc, observer, statuses, batch_id, status) ==
    LET updated == MapSet(statuses, batch_id, status)
        written == IF observer \in DictKeys(acc.observers)
                   THEN DictSet(acc.observers, observer, updated)
                   ELSE acc.observers
    IN IF _has_no_pendings(updated)
       THEN [observers |-> DictPop(written, observer),
             calls |-> Append(acc.calls,
                              [observer |-> observer,
                               method |-> "notify_batches_finished",
                               statuses |-> updated])]
       ELSE [observers |-> written, calls |-> acc.calls]

\* the loop body, for one (observer, statuses) item of the copy
UpdateObserversStep(acc, observer, statuses, batch_id, status) ==
    IF batch_id \in DOMAIN statuses
    THEN LET updated == StatusesSet(statuses, batch_id, status)
             written == IF observer \in DictKeys(acc.observers)
                        THEN DictSet(acc.observers, observer, updated)
                        ELSE acc.observers
         IN IF _has_no_pendings(updated)
            THEN [observers |-> DictPop(written, observer),
                  calls |-> Append(acc.calls,
                                   [observer |-> observer,
                                    method |-> "notify_batches_finished",
                                    statuses |-> updated])]
            ELSE [observers |-> written, calls |-> acc.calls]
    ELSE acc

RECURSIVE UpdateObserversLoop(_, _, _, _, _)
UpdateObserversLoop(copy, i, acc, batch_id, status) ==
    IF i > Len(copy) THEN acc
    ELSE UpdateObserversLoop(copy, i + 1,
             UpdateObserversStep(acc, copy[i].key, copy[i].val, batch_id, status),
             batch_id, status)

_update_observers(obs, cs, batch_id, status) ==
    UpdateObserversLoop(obs, 1, [observers |-> obs, calls |-> cs], batch_id, status)

----------------------------------------------------------------------------
(* notify_store_updated: the loop over self._pending.copy(); acc holds the *)
(* pending dict, the observers dict, the emits and the calls so far.       *)

\* StoreUpdatedStep without the has_batch test
StoreUpdatedStepAll(acc, batch_id) ==
    LET u == _update_observers(acc.observers, acc.calls, batch_id, COMMITTED)
    IN [pending |-> DictPop(acc.pending, batch_id),
        observers |-> u.observers,
        emits |-> Append(acc.emits, [batch_id |-> batch_id, status |-> COMMITTED]),
        calls |-> u.calls]

\* the loop body, for one batch_id of the copy
StoreUpdatedStep(acc, batch_id) ==
    IF batch_id \in block_store
    THEN LET u == _update_observers(acc.observers, acc.calls, batch_id, COMMITTED)
         IN [pending |-> DictPop(acc.pending, batch_id),
             observers |-> u.observers,
             emits |-> Append(acc.emits, [batch_id |-> batch_id, status |-> COMMITTED]),
             calls |-> u.calls]
    ELSE acc

RECURSIVE StoreUpdatedLoop(_, _, _)
StoreUpdatedLoop(copy, i, acc) ==
    IF i > Len(copy) THEN acc
    ELSE StoreUpdatedLoop(copy, i + 1, StoreUpdatedStep(acc, copy[i].key))

notify_store_updated ==
    LET r == StoreUpdatedLoop(pending, 1,
                 [pending |-> pending, observers |-> observers,
                  emits |-> << >>, calls |-> << >>])
    IN /\ pending' = r.pending
       /\ observers' = r.observers
       /\ emits' = r.emits
       /\ calls' = r.calls
       /\ op' = [name |-> "notify_store_updated"]
       /\ err' = None
       /\ ret' = None
       /\ UNCHANGED <<block_store, invalid, now, admitted, threads>>

----------------------------------------------------------------------------
(* notify_txn_invalid *)

\* the txn_info dict: 'message' and 'extended_data' are keys only when given
TxnInfo(txn_id, message, extended_data) ==
    IF message # None /\ extended_data # None
    THEN [id |-> txn_id, message |-> message, extended_data |-> extended_data]
    ELSE IF message # None THEN [id |-> txn_id, message |-> message]
    ELSE IF extended_data # None THEN [id |-> txn_id, extended_data |-> extended_data]
    ELSE [id |-> txn_id]

\* TxnInBatch that takes every batch to hold the transaction
TxnInBatchAlways(txn_id, txn_ids) == TRUE

\* the test of the loop: txn_id in txn_ids
TxnInBatch(txn_id, txn_ids) == txn_id \in txn_ids

\* TxnInvalidMatch without self._pending.pop(batch_id)
TxnInvalidMatchNoPop(batch_id, txn_info) ==
    LET u == _update_observers(observers, << >>, batch_id, INVALID)
    IN [invalid |-> TimedCacheSet(invalid, batch_id, txn_info, now),
        pending |-> pending,
        observers |-> u.observers,
        emits |-> << [batch_id |-> batch_id, status |-> INVALID] >>,
        calls |-> u.calls]

\* the body run for the batch that holds txn_id
TxnInvalidMatch(batch_id, txn_info) ==
    LET u == _update_observers(observers, << >>, batch_id, INVALID)
    IN [invalid |-> TimedCacheSet(invalid, batch_id, txn_info, now),
        pending |-> DictPop(pending, batch_id),
        observers |-> u.observers,
        emits |-> << [batch_id |-> batch_id, status |-> INVALID] >>,
        calls |-> u.calls]

\* the loop over self._pending.copy().items(): it returns at the first batch
\* that holds txn_id, and falls through when none does
RECURSIVE TxnInvalidLoop(_, _, _, _)
TxnInvalidLoop(copy, i, txn_id, txn_info) ==
    IF i > Len(copy)
    THEN [invalid |-> invalid, pending |-> pending, observers |-> observers,
          emits |-> << >>, calls |-> << >>]
    ELSE IF TxnInBatch(txn_id, copy[i].val)
         THEN TxnInvalidMatch(copy[i].key, txn_info)
         ELSE TxnInvalidLoop(copy, i + 1, txn_id, txn_info)

notify_txn_invalid(txn_id, message, extended_data) ==
    LET txn_info == TxnInfo(txn_id, message, extended_data)
        r == TxnInvalidLoop(pending, 1, txn_id, txn_info)
    IN /\ invalid' = r.invalid
       /\ pending' = r.pending
       /\ observers' = r.observers
       /\ emits' = r.emits
       /\ calls' = r.calls
       /\ op' = [name |-> "notify_txn_invalid", txn_id |-> txn_id,
                 message |-> message, extended_data |-> extended_data]
       /\ err' = None
       /\ ret' = None
       /\ UNCHANGED <<block_store, now, admitted, threads>>

----------------------------------------------------------------------------
(* notify_batch_pending(batch): batch.header_signature is batch_id, the    *)
(* header signatures of batch.transactions are txn_ids.  The argument of   *)
(* the _update_observers call is the name batch_id, which the method never *)
(* binds and the module does not define: evaluating it raises NameError,   *)
(* after the batch was put into the pending dict.                          *)

notify_batch_pending(header_signature, txn_ids) ==
    /\ pending' = DictSet(pending, header_signature, txn_ids)
    \* line 96: NameError, before _update_observers is entered
    /\ err' = "NameError"
    /\ emits' = << >>
    /\ calls' = << >>
    /\ op' = [name |-> "notify_batch_pending", batch_id |-> header_signature,
              txn_ids |-> txn_ids]
    /\ ret' = None
    /\ admitted' = admitted \cup {header_signature}
    /\ UNCHANGED <<block_store, invalid, observers, now, threads>>

----------------------------------------------------------------------------
(* The queries.  get_invalid_txn_info takes no lock and reads the cache.   *)

call_get_status(batch_id) ==
    /\ ret' = get_status(batch_id)
    /\ op' = [name |-> "get_status", batch_id |-> batch_id]
    /\ err' = None
    /\ emits' = << >>
    /\ calls' = << >>
    /\ UNCHANGED <<block_store, invalid, pending, observers, now, admitted, threads>>

call_get_statuses(batch_ids) ==
    /\ ret' = get_statuses(batch_ids)
    /\ op' = [name |-> "get_statuses", batch_ids |-> batch_ids]
    /\ err' = None
    /\ emits' = << >>
    /\ calls' = << >>
    /\ UNCHANGED <<block_store, invalid, pending, observers, now, admitted, threads>>

\* the KeyError raised at line 147; its message is formatted with the batch id
KeyErrorFor(batch_id) ==
    [b1 |-> "KeyError: Specified batch id not in invalid cache: b1",
     b2 |-> "KeyError: Specified batch id not in invalid cache: b2"][batch_id]

\* get_invalid_txn_info that returns None where it should raise
get_invalid_txn_info_swallow(batch_id) ==
    /\ IF TimedCacheContains(invalid, batch_id, now)
       THEN ret' = TimedCacheGet(invalid, batch_id) /\ err' = None
       ELSE ret' = None /\ err' = None
    /\ op' = [name |-> "get_invalid_txn_info", batch_id |-> batch_id]
    /\ emits' = << >>
    /\ calls' = << >>
    /\ UNCHANGED <<block_store, invalid, pending, observers, now, admitted, threads>>

get_invalid_txn_info(batch_id) ==
    /\ IF TimedCacheContains(invalid, batch_id, now)
       THEN ret' = TimedCacheGet(invalid, batch_id) /\ err' = None
       ELSE ret' = None /\ err' = KeyErrorFor(batch_id)
    /\ op' = [name |-> "get_invalid_txn_info", batch_id |-> batch_id]
    /\ emits' = << >>
    /\ calls' = << >>
    /\ UNCHANGED <<block_store, invalid, pending, observers, now, admitted, threads>>

----------------------------------------------------------------------------
(* watch_statuses(observer, batch_ids): with nothing pending it calls      *)
(* observer.notify_finished, which an observer has only if its class       *)
(* defines it; BatchFinishObserver defines notify_batches_finished alone,  *)
(* so the attribute lookup raises AttributeError.                          *)

\* observer.<method>(statuses) : the call made, or the error of the lookup
CallObserver(observer, method, statuses) ==
    IF method \in BatchFinishObserver
    THEN [err |-> None,
          calls |-> << [observer |-> observer, method |-> method, statuses |-> statuses] >>]
    ELSE [err |-> "AttributeError", calls |-> << >>]

watch_statuses(observer, batch_ids) ==
    LET statuses == get_statuses(batch_ids)
    IN /\ IF _has_no_pendings(statuses)
          THEN LET c == CallObserver(observer, "notify_finished", statuses)
               IN /\ err' = c.err
                  /\ calls' = c.calls
                  /\ UNCHANGED observers
          ELSE /\ observers' = DictSet(observers, observer, statuses)
               /\ err' = None
               /\ calls' = << >>
       /\ op' = [name |-> "watch_statuses", observer |-> observer, batch_ids |-> batch_ids]
       /\ ret' = None
       /\ emits' = << >>
       /\ UNCHANGED <<block_store, invalid, pending, now, admitted, threads>>

----------------------------------------------------------------------------
(* The environment: the block store commits a batch, time passes *)

BlockCommitted(batch_id) ==
    /\ batch_id \notin block_store
    /\ block_store' = block_store \cup {batch_id}
    /\ op' = [name |-> "block_committed", batch_id |-> batch_id]
    /\ err' = None
    /\ ret' = None
    /\ emits' = << >>
    /\ calls' = << >>
    /\ UNCHANGED <<invalid, pending, observers, now, admitted, threads>>

Tick ==
    /\ now + TickStep <= MaxTime
    /\ now' = now + TickStep
    /\ op' = [name |-> "tick"]
    /\ err' = None
    /\ ret' = None
    /\ emits' = << >>
    /\ calls' = << >>
    /\ UNCHANGED <<block_store, invalid, pending, observers, admitted, threads>>

----------------------------------------------------------------------------
Init ==
    /\ block_store = {}
    /\ invalid = EmptyMap
    /\ pending = EmptyDict
    /\ observers = EmptyDict
    /\ now = 0
    /\ op = [name |-> "__init__"]
    /\ err = None
    /\ ret = None
    /\ emits = << >>
    /\ calls = << >>
    /\ admitted = {}
    /\ lock_owner = None
    /\ lock_count = 0
    /\ stack = [t \in Threads |-> << >>]
    /\ started = [t \in Threads |-> 0]

StoreUpdated == notify_store_updated

TxnInvalid == \E r \in Rejections : notify_txn_invalid(r[1], r[2], r[3])

BatchPending ==
    \E b \in Batches : notify_batch_pending(b, BatchTxns[b])

GetStatus == \E b \in Batches : call_get_status(b)

GetStatuses == \E bs \in (SUBSET Batches) \ {{}} : call_get_statuses(bs)

GetInvalidTxnInfo == \E b \in Batches : get_invalid_txn_info(b)

WatchStatuses == \E w \in Observers, bs \in (SUBSET Batches) \ {{}} : watch_statuses(w, bs)

Commit == \E b \in Batches : BlockCommitted(b)

Next ==
    \/ StoreUpdated
    \/ TxnInvalid
    \/ BatchPending
    \/ GetStatus
    \/ GetStatuses
    \/ GetInvalidTxnInfo
    \/ WatchStatuses
    \/ Commit
    \/ Tick

Spec == Init /\ [][Next]_vars


----------------------------------------------------------------------------
(* Observers that call back into the tracker.  notify_batches_finished is  *)
(* run by the thread that holds the lock, inside _update_observers; the    *)
(* RLock lets the callback call watch_statuses(self, batch_ids) at once.   *)
(* react[observer] is the list of ids the observer's callback watches      *)
(* again, {} for a callback that returns without a call.  The nested       *)
(* watch_statuses reads the tracker as the operation has left it so far:   *)
(* inv and pend are the cache and the pending dict at that point.          *)

\* the observers of the runs with callbacks that call back
ReentrantObservers == {"w1"}

Reactions == [ReentrantObservers -> SUBSET Batches]

\* get_status, read in the middle of an operation
get_status_in(inv, pend, batch_id) ==
    IF batch_id \in block_store THEN COMMITTED
    ELSE IF TimedCacheContains(inv, batch_id, now) THEN INVALID
    ELSE IF batch_id \in DictKeys(pend) THEN PENDING
    ELSE UNKNOWN

get_statuses_in(inv, pend, batch_ids) ==
    [b \in batch_ids |-> get_status_in(inv, pend, b)]

\* watch_statuses(observer, batch_ids) called from the callback: obs is the
\* observers dict at that point
watch_statuses_in(obs, inv, pend, observer, batch_ids) ==
    LET statuses == get_statuses_in(inv, pend, batch_ids)
    IN IF _has_no_pendings(statuses)
       THEN LET c == CallObserver(observer, "notify_finished", statuses)
            IN [observers |-> obs, err |-> c.err, calls |-> c.calls]
       ELSE [observers |-> DictSet(obs, observer, statuses), err |-> None,
             calls |-> << >>]

\* the body of the loop of _update_observers with such observers: an
\* exception of the callback leaves the loop before line 177, a callback
\* that returns is followed by self._observers.pop(observer)
ReentrantStep(acc, observer, statuses, batch_id, status, inv, pend, react) ==
    IF acc.err # None THEN acc
    ELSE IF batch_id \in DOMAIN statuses
    THEN LET updated == StatusesSet(statuses, batch_id, status)
             written == IF observer \in DictKeys(acc.observers)
                        THEN DictSet(acc.observers, observer, updated)
                        ELSE acc.observers
             called == Append(acc.calls,
                              [observer |-> observer,
                               method |-> "notify_batches_finished",
                               statuses |-> updated])
         IN IF _has_no_pendings(updated)
            THEN IF react[observer] = {}
                 THEN [observers |-> DictPop(written, observer),
                       calls |-> called, err |-> None]
                 ELSE LET w == watch_statuses_in(written, inv, pend, observer,
                                                 react[observer])
                      IN IF w.err # None
                         THEN [observers |-> w.observers,
                               calls |-> called \o w.calls,
                               err |-> w.err]
                         ELSE [observers |-> DictPop(w.observers, observer),
                               calls |-> called \o w.calls,
                               err |-> None]
            ELSE [observers |-> written, calls |-> acc.calls, err |-> None]
    ELSE acc

RECURSIVE ReentrantLoop(_, _, _, _, _, _, _, _)
ReentrantLoop(copy, i, acc, batch_id, status, inv, pend, react) ==
    IF i > Len(copy) THEN acc
    ELSE ReentrantLoop(copy, i + 1,
             ReentrantStep(acc, copy[i].key, copy[i].val, batch_id, status,
                           inv, pend, react),
             batch_id, status, inv, pend, react)

_update_observers_reentrant(obs, cs, batch_id, status, inv, pend, react) ==
    ReentrantLoop(obs, 1, [observers |-> obs, calls |-> cs, err |-> None],
                  batch_id, status, inv, pend, react)

\* the body of the loop of notify_store_updated; an exception out of
\* _update_observers ends the loop
StoreUpdatedStepReentrant(acc, batch_id, react) ==
    IF acc.err # None THEN acc
    ELSE IF batch_id \in block_store
    THEN LET popped == DictPop(acc.pending, batch_id)
             u == _update_observers_reentrant(acc.observers, acc.calls, batch_id,
                                              COMMITTED, invalid, popped, react)
         IN [pending |-> popped,
             observers |-> u.observers,
             emits |-> Append(acc.emits, [batch_id |-> batch_id, status |-> COMMITTED]),
             calls |-> u.calls,
             err |-> u.err]
    ELSE acc

RECURSIVE StoreUpdatedLoopReentrant(_, _, _, _)
StoreUpdatedLoopReentrant(copy, i, acc, react) ==
    IF i > Len(copy) THEN acc
    ELSE StoreUpdatedLoopReentrant(copy, i + 1,
             StoreUpdatedStepReentrant(acc, copy[i].key, react), react)

notify_store_updated_reentrant(react) ==
    LET r == StoreUpdatedLoopReentrant(pending, 1,
                 [pending |-> pending, observers |-> observers,
                  emits |-> << >>, calls |-> << >>, err |-> None], react)
    IN /\ pending' = r.pending
       /\ observers' = r.observers
       /\ emits' = r.emits
       /\ calls' = r.calls
       /\ op' = [name |-> "notify_store_updated", react |-> react]
       /\ err' = r.err
       /\ ret' = None
       /\ UNCHANGED <<block_store, invalid, now, admitted, threads>>

TxnInvalidMatchReentrant(batch_id, txn_info, react) ==
    LET inv == TimedCacheSet(invalid, batch_id, txn_info, now)
        popped == DictPop(pending, batch_id)
        u == _update_observers_reentrant(observers, << >>, batch_id, INVALID,
                                         inv, popped, react)
    IN [invalid |-> inv,
        pending |-> popped,
        observers |-> u.observers,
        emits |-> << [batch_id |-> batch_id, status |-> INVALID] >>,
        calls |-> u.calls,
        err |-> u.err]

RECURSIVE TxnInvalidLoopReentrant(_, _, _, _, _)
TxnInvalidLoopReentrant(copy, i, txn_id, txn_info, react) ==
    IF i > Len(copy)
    THEN [invalid |-> invalid, pending |-> pending, observers |-> observers,
          emits |-> << >>, calls |-> << >>, err |-> None]
    ELSE IF TxnInBatch(txn_id, copy[i].val)
         THEN TxnInvalidMatchReentrant(copy[i].key, txn_info, react)
         ELSE TxnInvalidLoopReentrant(copy, i + 1, txn_id, txn_info, react)

notify_txn_invalid_reentrant(txn_id, message, extended_data, react) ==
    LET txn_info == TxnInfo(txn_id, message, extended_data)
        r == TxnInvalidLoopReentrant(pending, 1, txn_id, txn_info, react)
    IN /\ invalid' = r.invalid
       /\ pending' = r.pending
       /\ observers' = r.observers
       /\ emits' = r.emits
       /\ calls' = r.calls
       /\ op' = [name |-> "notify_txn_invalid", txn_id |-> txn_id,
                 message |-> message, extended_data |-> extended_data,
                 react |-> react]
       /\ err' = r.err
       /\ ret' = None
       /\ UNCHANGED <<block_store, now, admitted, threads>>

StoreUpdatedReentrant == \E react \in Reactions : notify_store_updated_reentrant(react)

TxnInvalidReentrant ==
    \E txn_id \in Txns, react \in Reactions :
        notify_txn_invalid_reentrant(txn_id, None, None, react)

WatchStatusesReentrant ==
    \E w \in ReentrantObservers, bs \in (SUBSET Batches) \ {{}} : watch_statuses(w, bs)

NextReentrant ==
    \/ StoreUpdatedReentrant
    \/ TxnInvalidReentrant
    \/ BatchPending
    \/ WatchStatusesReentrant
    \/ Commit

SpecReentrant == Init /\ [][NextReentrant]_vars

----------------------------------------------------------------------------
(* The lock.  Every method but get_invalid_txn_info runs its body inside   *)
(* "with self._lock"; self._lock is an RLock.  A frame of stack[t] is one  *)
(* such method thread t is in: pc is "acquire" before the with statement   *)
(* has the lock, "body" inside it and "release" when the body has ended    *)
(* (raising: by an exception) and __exit__ is to run; left is the number   *)
(* of calls into locked methods the body has still to make.                *)

LockedMethods ==
    {"notify_store_updated", "notify_txn_invalid", "notify_batch_pending",
     "get_status", "get_statuses", "watch_statuses"}

\* the locked methods the body of a method calls: get_statuses calls
\* get_status, watch_statuses calls get_statuses, and the two methods that
\* reach observer.notify_batches_finished run a callback that may call
\* get_status, get_statuses or watch_statuses
Callees(method) ==
    IF method = "get_statuses" THEN {"get_status"}
    ELSE IF method = "watch_statuses" THEN {"get_statuses"}
    ELSE IF method \in {"notify_store_updated", "notify_txn_invalid"}
         THEN {"get_status", "get_statuses", "watch_statuses"}
    ELSE {}

\* how many such calls one run of the body makes
NestedCalls(method) ==
    IF method = "get_statuses" THEN 1..MaxIds
    ELSE IF method = "watch_statuses" THEN {1}
    ELSE IF method \in {"notify_store_updated", "notify_txn_invalid"}
         THEN 0..MaxCallbacks
    ELSE {0}

\* how the body can end: notify_batch_pending by the NameError of line 96,
\* watch_statuses by the AttributeError of line 163 or by registering
Raises(method) ==
    IF method = "notify_batch_pending" THEN {TRUE}
    ELSE IF method = "watch_statuses" THEN {TRUE, FALSE}
    ELSE {FALSE}

NewFrame(method, n) ==
    [method |-> method, pc |-> "acquire", left |-> n, raising |-> FALSE]

Top(t) == stack[t][Len(stack[t])]

SetTop(t, frame) == [stack EXCEPT ![t][Len(stack[t])] = frame]

\* a lock that its owner cannot acquire again
LockAcquirable(t) == lock_owner = None

\* RLock.acquire does not block when the lock is free or the caller's
RLockAcquirable(t) == lock_owner = None \/ lock_owner = t

\* a thread calls a method of the tracker
Begin(t, method, n) ==
    /\ stack[t] = << >>
    /\ started[t] < MaxOps
    /\ method \in LockedMethods
    /\ n \in NestedCalls(method)
    /\ stack' = [stack EXCEPT ![t] = << NewFrame(method, n) >>]
    /\ started' = [started EXCEPT ![t] = @ + 1]
    /\ UNCHANGED <<lock_owner, lock_count, calls_state>>

\* with self._lock: __enter__
Acquire(t) ==
    /\ stack[t] # << >>
    /\ Top(t).pc = "acquire"
    /\ RLockAcquirable(t)
    /\ lock_owner' = t
    /\ lock_count' = lock_count + 1
    /\ stack' = SetTop(t, [Top(t) EXCEPT !.pc = "body"])
    /\ UNCHANGED <<started, calls_state>>

\* the body calls a locked method
Call(t, method, n) ==
    /\ stack[t] # << >>
    /\ Top(t).pc = "body"
    /\ Top(t).left > 0
    /\ method \in Callees(Top(t).method)
    /\ n \in NestedCalls(method)
    /\ stack' = [stack EXCEPT ![t] =
                    Append(SetTop(t, [Top(t) EXCEPT !.left = @ - 1])[t],
                           NewFrame(method, n))]
    /\ UNCHANGED <<lock_owner, lock_count, started, calls_state>>

\* the body ends, by its last statement or by an exception
Leave(t, raising) ==
    /\ stack[t] # << >>
    /\ Top(t).pc = "body"
    /\ Top(t).left = 0
    /\ raising \in Raises(Top(t).method)
    /\ stack' = SetTop(t, [Top(t) EXCEPT !.pc = "release", !.raising = raising])
    /\ UNCHANGED <<lock_owner, lock_count, started, calls_state>>

\* with self._lock: __exit__, then the return to the caller; an exception
\* goes on to the caller's with statement
Release(t) ==
    /\ stack[t] # << >>
    /\ Top(t).pc = "release"
    /\ lock_count' = lock_count - 1
    /\ lock_owner' = IF lock_count = 1 THEN None ELSE lock_owner
    /\ LET rest == SubSeq(stack[t], 1, Len(stack[t]) - 1)
       IN stack' = [stack EXCEPT ![t] =
                       IF Top(t).raising /\ rest # << >>
                       THEN [rest EXCEPT ![Len(rest)] =
                                [@ EXCEPT !.pc = "release", !.raising = TRUE]]
                       ELSE rest]
    /\ UNCHANGED <<started, calls_state>>

Step(t) ==
    \/ Acquire(t)
    \/ \E method \in LockedMethods, n \in 0..(MaxIds + MaxCallbacks) : Call(t, method, n)
    \/ \E raising \in BOOLEAN : Leave(t, raising)
    \/ Release(t)

ThreadBegin ==
    \E t \in Threads, method \in LockedMethods, n \in 0..(MaxIds + MaxCallbacks) :
        Begin(t, method, n)

ThreadAcquire == \E t \in Threads : Acquire(t)

ThreadCall ==
    \E t \in Threads, method \in LockedMethods, n \in 0..(MaxIds + MaxCallbacks) :
        Call(t, method, n)

ThreadLeave == \E t \in Threads, raising \in BOOLEAN : Leave(t, raising)

ThreadRelease == \E t \in Threads : Release(t)

NextLock ==
    \/ ThreadBegin
    \/ ThreadAcquire
    \/ ThreadCall
    \/ ThreadLeave
    \/ ThreadRelease

\* a thread that can take a step is scheduled in the end
SpecLock == Init /\ [][NextLock]_vars /\ \A t \in Threads : WF_vars(Step(t))

----------------------------------------------------------------------------
(* Properties *)

Live(batch_id) == TimedCacheContains(invalid, batch_id, now)

\* the observer was called in the step that ends here
Called(cs, observer) == \E i \in 1..Len(cs) : cs[i].observer = observer

\* C1: get_status(b) returns COMMITTED if the block store has b, otherwise
\* INVALID if b is a live key of the invalid cache, otherwise PENDING if b is
\* a key of the pending dict, otherwise UNKNOWN; the call changes neither the
\* pending dict, the cache nor the observers dict.
C1_StatusPrecedence ==
    [][op'.name = "get_status" =>
        LET b == op'.batch_id
        IN /\ b \in block_store => ret' = COMMITTED
           /\ b \notin block_store /\ Live(b) => ret' = INVALID
           /\ b \notin block_store /\ ~Live(b) /\ b \in DictKeys(pending)
                  => ret' = PENDING
           /\ b \notin block_store /\ ~Live(b) /\ b \notin DictKeys(pending)
                  => ret' = UNKNOWN
           /\ UNCHANGED <<pending, invalid, observers>>]_vars

\* get_status answered COMMITTED for a batch that is also live in the cache
\* and in the pending dict
C1_Witness ==
    /\ op.name = "get_status"
    /\ ret = COMMITTED
    /\ Live(op.batch_id)
    /\ op.batch_id \in DictKeys(pending)

C3_NoRegistrationDropped ==
    [][/\ (/\ op'.name = "watch_statuses"
           /\ \E b \in op'.batch_ids : get_status(b) = PENDING)
          => /\ op'.observer \in DictKeys(observers')
             /\ op'.batch_ids \subseteq DOMAIN DictGet(observers', op'.observer)
       /\ \A w \in DictKeys(observers) :
            \/ \E i \in 1..Len(calls') :
                   /\ calls'[i].observer = w
                   /\ DOMAIN DictGet(observers, w) \subseteq DOMAIN calls'[i].statuses
            \/ /\ w \in DictKeys(observers')
               /\ DOMAIN DictGet(observers, w) \subseteq DOMAIN DictGet(observers', w)
      ]_vars

\* C4: watch_statuses called when none of the ids is PENDING calls the
\* observer's notify_batches_finished exactly once with id -> get_status(id),
\* raises nothing and does not register the observer.
C4_NotifiedAtOnce ==
    [][(/\ op'.name = "watch_statuses"
        /\ \A b \in op'.batch_ids : get_status(b) # PENDING)
       => /\ calls' = << [observer |-> op'.observer,
                          method |-> "notify_batches_finished",
                          statuses |-> [b \in op'.batch_ids |-> get_status(b)]] >>
          /\ err' = None
          /\ observers' = observers]_vars

\* C5: notify_store_updated, notify_txn_invalid, notify_batch_pending,
\* get_status, get_statuses and watch_statuses never raise.
C5_OnlyInvalidInfoFails ==
    op.name \in {"notify_store_updated", "notify_txn_invalid", "notify_batch_pending",
                 "get_status", "get_statuses", "watch_statuses"}
        => err = None

\* C6: notify_batch_pending(B) returns, and then B is a key of the pending
\* dict mapped to exactly the batch's transaction ids and get_status(B) is
\* PENDING.
C6_AdmittedIsPending ==
    op.name = "notify_batch_pending" =>
        /\ err = None
        /\ op.batch_id \in DictKeys(pending)
        /\ DictGet(pending, op.batch_id) = op.txn_ids
        /\ get_status(op.batch_id) = PENDING

\* C7: notify_store_updated leaves in the pending dict exactly the entries
\* whose batch the block store does not hold, unchanged and in their order,
\* and leaves the cache unchanged; every batch it removed has get_status
\* COMMITTED and exactly one COMMITTED emit, and nothing else is emitted.
C7_SweepRemovesCommitted ==
    [][op'.name = "notify_store_updated" =>
        LET removed == DictKeys(pending) \ DictKeys(pending')
        IN /\ pending' = SelectSeq(pending, LAMBDA e : e.key \notin block_store)
           /\ invalid' = invalid
           /\ \A b \in removed :
                /\ get_status(b)' = COMMITTED
                /\ Cardinality({i \in 1..Len(emits') : emits'[i].batch_id = b}) = 1
           /\ \A i \in 1..Len(emits') :
                /\ emits'[i].batch_id \in removed
                /\ emits'[i].status = COMMITTED]_vars

\* a sweep removed one committed batch and left the other one pending
C7_Witness ==
    /\ op.name = "notify_store_updated"
    /\ Len(emits) = 1
    /\ Len(pending) = 1
    /\ emits[1].batch_id \in block_store
    /\ pending[1].key \notin block_store

\* the pending batches that hold the transaction
Holders(pend, txn_id) == {b \in DictKeys(pend) : txn_id \in DictGet(pend, b)}

\* the first batch, in the order of the pending dict, that holds the transaction
FirstHolder(pend, txn_id) ==
    pend[CHOOSE i \in 1..Len(pend) :
             /\ txn_id \in pend[i].val
             /\ \A j \in 1..(i - 1) : txn_id \notin pend[j].val].key

\* the record written for a rejection: 'id', and 'message' and
\* 'extended_data' when they were given
IsRecordOf(r, o) ==
    /\ DOMAIN r = {"id"} \cup (IF o.message # None THEN {"message"} ELSE {})
                         \cup (IF o.extended_data # None THEN {"extended_data"} ELSE {})
    /\ r.id = o.txn_id
    /\ o.message # None => r.message = o.message
    /\ o.extended_data # None => r.extended_data = o.extended_data

\* C8 as stated: after notify_txn_invalid(t, m) with t in a pending batch,
\* one batch B that held t has get_status INVALID, the record {id: t,
\* message: m} and is out of the pending dict, and every other entry of the
\* pending dict and of the cache is as before.
C8_RejectedIsInvalid ==
    [][(/\ op'.name = "notify_txn_invalid"
        /\ op'.message # None
        /\ op'.extended_data = None
        /\ Holders(pending, op'.txn_id) # {})
       => \E B \in Holders(pending, op'.txn_id) :
            /\ get_status(B)' = INVALID
            /\ TimedCacheContains(invalid', B, now')
            /\ TimedCacheGet(invalid', B) = [id |-> op'.txn_id, message |-> op'.message]
            /\ pending' = DictPop(pending, B)
            /\ \A b \in DOMAIN invalid' \ {B} : b \in DOMAIN invalid /\ invalid'[b] = invalid[b]
      ]_vars

\* C8 amended: after notify_txn_invalid(t, m, x) with t in a pending batch,
\* the first batch B of the pending dict that holds t is out of the pending
\* dict and has the live record of the rejection, written at the time of the
\* call; get_status(B) is INVALID unless the block store holds B, and then it
\* is COMMITTED; every other entry of the pending dict and of the cache is as
\* before, and the one emit is (B, INVALID).
C8_RejectedIsInvalidUnlessCommitted ==
    [][(/\ op'.name = "notify_txn_invalid"
        /\ Holders(pending, op'.txn_id) # {})
       => \A B \in Batches :
            B = FirstHolder(pending, op'.txn_id) =>
             /\ get_status(B)' = IF B \in block_store THEN COMMITTED ELSE INVALID
             /\ TimedCacheContains(invalid', B, now')
             /\ IsRecordOf(TimedCacheGet(invalid', B), op')
             /\ invalid'[B].timestamp = now
             /\ pending' = DictPop(pending, B)
             /\ DOMAIN invalid' = DOMAIN invalid \cup {B}
             /\ \A b \in DOMAIN invalid' \ {B} : invalid'[b] = invalid[b]
             /\ emits' = << [batch_id |-> B, status |-> INVALID] >>
      ]_vars

\* t2 was rejected while both batches held it: b1, the first, was
\* invalidated and b2 is still pending
C8_Witness ==
    /\ op.name = "notify_txn_invalid"
    /\ op.txn_id = "t2"
    /\ emits = << [batch_id |-> "b1", status |-> INVALID] >>
    /\ "b2" \in DictKeys(pending)
    /\ "b1" \notin DictKeys(pending)
    /\ get_status("b1") = INVALID

\* C9: notify_txn_invalid for a transaction that no pending batch holds
\* changes neither the pending dict, the cache (no record is refreshed) nor
\* the observers dict, calls no observer and raises nothing.
C9_StaleRejectionIsNoOp ==
    [][(/\ op'.name = "notify_txn_invalid"
        /\ Holders(pending, op'.txn_id) = {})
       => /\ UNCHANGED <<pending, invalid, observers>>
          /\ calls' = << >>
          /\ emits' = << >>
          /\ err' = None]_vars

\* a transaction was rejected again, later, while the record of its batch
\* was live and another batch was pending
C9_Witness ==
    /\ op.name = "notify_txn_invalid"
    /\ emits = << >>
    /\ pending # EmptyDict
    /\ observers # EmptyDict
    /\ \E b \in DOMAIN invalid :
           /\ Live(b)
           /\ invalid[b].value.id = op.txn_id
           /\ invalid[b].timestamp < now

C11_NeverReinserted ==
    [][/\ \A b \in Batches :
            (b \in admitted /\ b \notin DictKeys(pending)) => b \notin DictKeys(pending')
       /\ op'.name = "notify_batch_pending" =>
            emits' = << [batch_id |-> op'.batch_id, status |-> PENDING] >>
       /\ \A i \in 1..Len(emits') :
            emits'[i].status \in {COMMITTED, INVALID}
                => emits'[i].batch_id \notin DOMAIN invalid
      ]_vars

\* C12: while an observer stays registered, a status of its stored statuses
\* that is not PENDING never becomes PENDING again.
C12_StoredStatusMonotone ==
    [][\A w \in DictKeys(observers) \cap DictKeys(observers') :
          \A b \in DOMAIN DictGet(observers, w) \cap DOMAIN DictGet(observers', w) :
              DictGet(observers, w)[b] # PENDING => DictGet(observers', w)[b] # PENDING
      ]_vars

\* C13 as stated: for a batch id never passed to notify_batch_pending,
\* get_status returns UNKNOWN, get_statuses maps it to UNKNOWN, and neither
\* raises.
C13_NeverAdmittedIsUnknown ==
    /\ (op.name = "get_status" /\ op.batch_id \notin admitted)
           => ret = UNKNOWN /\ err = None
    /\ op.name = "get_statuses"
           => /\ err = None
              /\ \A b \in op.batch_ids \ admitted : ret[b] = UNKNOWN

\* C13 amended: for a batch id never passed to notify_batch_pending,
\* get_status returns COMMITTED if the block store holds the batch and UNKNOWN
\* otherwise, get_statuses maps it to the same, and neither raises.
C13_NeverAdmittedIsUnknownOrCommitted ==
    /\ (op.name = "get_status" /\ op.batch_id \notin admitted)
           => /\ ret = IF op.batch_id \in block_store THEN COMMITTED ELSE UNKNOWN
              /\ err = None
    /\ op.name = "get_statuses"
           => /\ err = None
              /\ DOMAIN ret = op.batch_ids
              /\ \A b \in op.batch_ids \ admitted :
                     ret[b] = IF b \in block_store THEN COMMITTED ELSE UNKNOWN

\* get_statuses was asked for both batches when one was never admitted and
\* the other was admitted and then invalidated
C13_Witness ==
    /\ op.name = "get_statuses"
    /\ op.batch_ids = Batches
    /\ \E b \in Batches :
           /\ b \notin admitted
           /\ ret[b] = UNKNOWN
           /\ \E c \in admitted : ret[c] = INVALID

\* C14: get_invalid_txn_info(B) returns the record written for B when B was
\* invalidated at time T and the clock is before T + INVALID_KEEP_TIME, and
\* raises the KeyError that carries B when B has no record or the clock is at
\* or after T + INVALID_KEEP_TIME; it changes neither the pending dict, the
\* cache nor the observers dict; a batch with an expired record does not have
\* get_status INVALID.
C14_InvalidInfoUntilExpiry ==
    [][/\ op'.name = "get_invalid_txn_info" =>
            LET b == op'.batch_id
            IN /\ IF b \in DOMAIN invalid
                     /\ now < invalid[b].timestamp + INVALID_KEEP_TIME
                  THEN err' = None /\ ret' = invalid[b].value
                  ELSE err' = KeyErrorFor(b) /\ err' # None
               /\ \A c \in Batches \ {b} : err' # KeyErrorFor(c)
               /\ UNCHANGED <<pending, invalid, observers>>
       /\ \A b \in Batches :
            (b \in DOMAIN invalid' /\ now' >= invalid'[b].timestamp + INVALID_KEEP_TIME)
                => get_status(b)' # INVALID
      ]_vars

\* the record of a batch was asked for exactly INVALID_KEEP_TIME after it was
\* written, and the call raised
C14_Witness ==
    /\ op.name = "get_invalid_txn_info"
    /\ op.batch_id \in DOMAIN invalid
    /\ now = invalid[op.batch_id].timestamp + INVALID_KEEP_TIME
    /\ err = KeyErrorFor(op.batch_id)

\* C15: notify_batch_pending(B) emits (B, PENDING) and returns: afterwards
\* every registered observer whose statuses hold B has B's status PENDING, and
\* an observer whose statuses do not hold B keeps its statuses and is not
\* called.
C15_AdmissionEmitsPending ==
    [][op'.name = "notify_batch_pending" =>
        /\ err' = None
        /\ emits' = << [batch_id |-> op'.batch_id, status |-> PENDING] >>
        /\ calls' = << >>
        /\ DictKeys(observers') = DictKeys(observers)
        /\ \A w \in DictKeys(observers) :
             DictGet(observers', w) =
                 IF op'.batch_id \in DOMAIN DictGet(observers, w)
                 THEN [DictGet(observers, w) EXCEPT ![op'.batch_id] = PENDING]
                 ELSE DictGet(observers, w)
      ]_vars

\* the statuses an observer ends the step with: the ones still stored for
\* it, or the ones it was called with
FinalStatuses(obs, cs, observer) ==
    IF observer \in DictKeys(obs) THEN DictGet(obs, observer)
    ELSE cs[CHOOSE i \in 1..Len(cs) : cs[i].observer = observer].statuses

\* C16: the fan-out of an emit (B, s) writes only the entry of B in the
\* statuses of the registered observers that hold B: every other entry is as
\* before, and an observer whose statuses do not hold B stays registered with
\* the same statuses and is not called; no observer is added.
C16_FanoutFrame ==
    [][emits' # << >> =>
        LET E == {emits'[i].batch_id : i \in 1..Len(emits')}
        IN /\ DictKeys(observers') \subseteq DictKeys(observers)
           /\ \A i \in 1..Len(calls') : calls'[i].observer \in DictKeys(observers)
           /\ \A w \in DictKeys(observers) :
                LET old == DictGet(observers, w)
                IN IF DOMAIN old \cap E = {}
                   THEN /\ w \in DictKeys(observers')
                        /\ DictGet(observers', w) = old
                        /\ ~Called(calls', w)
                   ELSE /\ w \in DictKeys(observers') \/ Called(calls', w)
                        /\ ~(w \in DictKeys(observers') /\ Called(calls', w))
                        /\ LET new == FinalStatuses(observers', calls', w)
                           IN /\ DOMAIN new = DOMAIN old
                              /\ \A b \in DOMAIN old \ E : new[b] = old[b]
                              /\ Len(emits') = 1 => new[emits'[1].batch_id] = emits'[1].status
      ]_vars

\* b1 was invalidated while w1 watched b1 and b2 and w2 watched b2 alone:
\* w1 has b1 INVALID and b2 PENDING, w2 is as it was
C16_Witness ==
    /\ op.name = "notify_txn_invalid"
    /\ emits = << [batch_id |-> "b1", status |-> INVALID] >>
    /\ "w1" \in DictKeys(observers)
    /\ "w2" \in DictKeys(observers)
    /\ DictGet(observers, "w1") = [b1 |-> INVALID, b2 |-> PENDING]
    /\ DictGet(observers, "w2") = [b2 |-> PENDING]

\* C19: between operations (no call holds the lock), every batch id that the
\* statuses of a registered observer record as PENDING is a key of the
\* pending dict, and the statuses of every registered observer hold at least
\* one PENDING.
C19_NoLostWakeup ==
    \A w \in DictKeys(observers) :
        LET statuses == DictGet(observers, w)
        IN /\ \E b \in DOMAIN statuses : statuses[b] = PENDING
           /\ \A b \in DOMAIN statuses : statuses[b] = PENDING => b \in DictKeys(pending)

\* C20: every transition (B, s) that an operation hands to _update_observers
\* agrees with the query: get_status(B), in the state the transition is
\* emitted in, is s.
C20_EmitAgreesWithQuery ==
    [][\A i \in 1..Len(emits') :
         \A B \in Batches :
            B = emits'[i].batch_id => get_status(B)' = emits'[i].status
      ]_vars

\* C17: an observer whose notify_batches_finished, called by the fan-out,
\* calls watch_statuses(observer, ids2) with some id of ids2 PENDING is,
\* when the operation returns, registered with the statuses of ids2.
C17_ReregistrationKept ==
    [][\A w \in ReentrantObservers :
         (/\ op'.name \in {"notify_store_updated", "notify_txn_invalid"}
          /\ Called(calls', w)
          /\ \E b \in Batches : b \in op'.react[w] /\ get_status(b)' = PENDING)
         => /\ w \in DictKeys(observers')
            /\ DOMAIN DictGet(observers', w) = op'.react[w]
      ]_vars

\* the with statements thread t is inside: its hold count
HoldCount(t) ==
    Cardinality({i \in 1..Len(stack[t]) : stack[t][i].pc # "acquire"})

\* C18: with threads that call the locked methods concurrently and callbacks
\* that call get_status, get_statuses or watch_statuses while the operation
\* holds the lock: at most one thread is inside a locked section, the lock
\* is held by that thread as many times as it is inside, while a thread is
\* in an operation some such thread can take a step (no deadlock), and
\* every started operation returns with the lock released completely.
C18_LockDiscipline ==
    /\ [](/\ \A t1, t2 \in Threads :
                HoldCount(t1) > 0 /\ HoldCount(t2) > 0 => t1 = t2
          /\ \A t \in Threads : HoldCount(t) > 0 => lock_owner = t
          /\ lock_count = IF lock_owner = None THEN 0 ELSE HoldCount(lock_owner)
          /\ (\E t \in Threads : stack[t] # << >>)
                => \E t \in Threads : stack[t] # << >> /\ ENABLED Step(t))
    /\ \A t \in Threads :
          (stack[t] # << >>) ~> (stack[t] = << >> /\ lock_owner # t)

\* a callback of notify_txn_invalid has called watch_statuses, which is in
\* get_status by way of get_statuses: the thread holds the lock four times,
\* and the other thread waits for it
C18_Witness ==
    \E t1, t2 \in Threads :
        /\ t1 # t2
        /\ Len(stack[t1]) = 4
        /\ stack[t1][1].method = "notify_txn_invalid"
        /\ stack[t1][2].method = "watch_statuses"
        /\ stack[t1][4].method = "get_status"
        /\ lock_owner = t1
        /\ lock_count = 4
        /\ stack[t2] # << >>
        /\ Top(t2).pc = "acquire"

====
